---- MODULE Spec2Model ----
(***************************************************************************)
(* Model of the private-schools Express backend: the auth middleware, the  *)
(* school / media / employee-provisioning handlers and the rows they read  *)
(* and write.  Every await of a handler is one step of a request, so the   *)
(* requests served at the same time interleave at exactly those points.    *)
(***************************************************************************)
EXTENDS Integers, Sequences, FiniteSets, TLC

(* ------------------------------ bounds --------------------------------- *)

\* requests received in one behaviour
MaxRequests == 3

\* school rows ever created (ids are never reused)
MaxSchools == 2

\* media rows ever stored
MaxMedia == 1

\* records in the store, page numbers and page sizes of the paged lists
MaxListed == 5

MaxPage == 4

MaxPageSize == 3

\* times a sanitizer is applied in a row, to its own result from the second
MaxApplications == 2

(* --------------------------- program constants -------------------------- *)

\* sanitizeString: .slice(0, 1000)
MaxStringLen == 1000

\* sanitizeUrl keeps the first 500 characters
MaxUrlLen == 500

\* sanitizePhone: .slice(0, 20)
MaxPhoneLen == 20

(* ------------------------------ universe -------------------------------- *)

None == "none"

\* identity-provider user ids; a bearer token is named by the user it was
\* issued to, a token of an id with no account is an invalid token
Users == {"a", "b", "adm", "n", "e1"}

InitAccounts == {"a", "b", "adm", "n"}

InitRoles == [u \in Users |->
                 CASE u \in {"a", "b"} -> "employee"
                   [] u = "adm"        -> "admin"
                   [] OTHER            -> None]

\* the Authorization header as the words a space separates; <<>> is a
\* request without the header
Headers == {<<>>, <<"Basic", "a">>} \cup {<<"Bearer", t>> : t \in Users}

Routes == {"listSchools", "getSchool", "createSchool", "updateSchool",
           "deleteSchool", "createMedia", "createEmployee"}

SchoolIds == 1..MaxSchools

ChildKinds == {"address", "infrastructure", "primary", "basic", "secondary"}

\* the request contexts the server can hold at the same time
Slots == {1, 2}

(* ------------------------------ routing --------------------------------- *)

\* the middleware each route mounts before its handler
Chain(route) ==
    CASE route \in {"listSchools", "getSchool"} -> <<"optionalAuthenticate">>
      [] route \in {"createSchool", "updateSchool", "deleteSchool"}
                                                -> <<"authenticate", "requireAuth">>
      [] route = "createEmployee"               -> <<"authenticate", "requireAdmin">>
      [] OTHER                                  -> <<>>

\* where next() of the i-th middleware of the chain leads
Stage(route, i) ==
    IF i <= Len(Chain(route)) THEN Chain(route)[i] ELSE "handler"

(* --------------------------- auth middleware ---------------------------- *)

\* authHeader && authHeader.startsWith('Bearer ')
StartsWithBearerAnyHeader(h) == Len(h) >= 1

StartsWithBearer(h) == Len(h) >= 2 /\ h[1] = "Bearer"

\* authHeader.replace('Bearer ', '')
TokenOf(h) == h[2]

\* req.userRole = userRole?.role || null
ResolveRoleDefaultAdmin(row) == IF row = None THEN "admin" ELSE row

ResolveRole(row) == row

\* requireAdmin lets the request through: !(req.userRole !== 'admin')
RequireAdminPass(role) == role = "admin"

\* requireAuth lets the request through: !(!req.userRole)
RequireAuthPassAlways(role) == TRUE

RequireAuthPass(role) == role # None

(* ------------------------------ sanitizer ------------------------------- *)

\* strings are sequences of one-character strings

\* n times the character c
Repeat(c, n) == [i \in 1..n |-> c]

IsSpace(c) == c = " "

RECURSIVE TrimStart(_)
TrimStart(s) ==
    IF s # <<>> /\ IsSpace(Head(s)) THEN TrimStart(Tail(s)) ELSE s

RECURSIVE TrimEnd(_)
TrimEnd(s) ==
    IF s # <<>> /\ IsSpace(s[Len(s)]) THEN TrimEnd(SubSeq(s, 1, Len(s) - 1)) ELSE s

\* String.prototype.trim
Trim(s) == TrimEnd(TrimStart(s))

IsAngle(c) == c \in {"<", ">"}

KeepNotAngle(c) == ~IsAngle(c)

\* .replace(/[<>]/g, "")
StripAngles(s) == SelectSeq(s, KeepNotAngle)

\* .slice(0, n)
Slice(s, n) == SubSeq(s, 1, IF Len(s) < n THEN Len(s) ELSE n)

\* an argument that is undefined or null, which no string of characters is
Absent == <<"undefined">>

\* !input: the argument is undefined, null or the empty string
Falsy(input) == input = Absent \/ input = <<>>

\* sanitizeString: "" for a falsy input, else trim, strip, slice
sanitizeString(input) ==
    IF Falsy(input) THEN <<>> ELSE Slice(StripAngles(Trim(input)), MaxStringLen)

\* the lower case of the letters of the prefix
Lower(c) ==
    CASE c = "H" -> "h" [] c = "T" -> "t" [] c = "P" -> "p" [] c = "S" -> "s"
      [] OTHER -> c

\* s starts with the characters of prefix, letters compared without case
StartsWithNoCase(s, prefix) ==
    /\ Len(s) >= Len(prefix)
    /\ \A i \in 1..Len(prefix) : Lower(s[i]) = prefix[i]

Http == <<"h", "t", "t", "p", ":", "/", "/">>

Https == <<"h", "t", "t", "p", "s", ":", "/", "/">>

\* trimmed.match(/^https?:\/\//i)
MatchesHttp(s) == StartsWithNoCase(s, Http) \/ StartsWithNoCase(s, Https)

\* sanitizeUrl
sanitizeUrlAnyScheme(url) ==
    IF Falsy(url) THEN <<>> ELSE Slice(Trim(url), MaxUrlLen)

sanitizeUrl(url) ==
    IF Falsy(url) THEN <<>>
    ELSE IF Trim(url) # <<>> /\ ~MatchesHttp(Trim(url)) THEN <<>>
    ELSE Slice(Trim(url), MaxUrlLen)

Digits == {"0", "1", "2", "3", "4", "5", "6", "7", "8", "9"}

\* \d
IsDigit(c) == c \in Digits

KeepDigitOrPlus(c) == IsDigit(c) \/ c = "+"

\* /^\d{9}$/.test(s)
NineDigits(s) == Len(s) = 9 /\ \A i \in 1..9 : IsDigit(s[i])

\* s.startsWith(prefix)
StartsWith(s, prefix) ==
    Len(s) >= Len(prefix) /\ SubSeq(s, 1, Len(prefix)) = prefix

\* s.substring(from, to) for 0 <= from <= to
Substring(s, from, to) ==
    SubSeq(s, from + 1, IF to < Len(s) THEN to ELSE Len(s))

CountryCode == <<"+", "9", "9", "5">>

\* the template string formatGeorgianPhone returns
GroupedByThrees(digits) ==
    CountryCode \o <<" ">> \o Substring(digits, 0, 3) \o <<" ">>
        \o Substring(digits, 3, 6) \o <<" ">> \o Substring(digits, 6, 9)

Grouped(digits) ==
    CountryCode \o <<" ">> \o Substring(digits, 0, 3) \o <<" ">>
        \o Substring(digits, 3, 5) \o <<" ">> \o Substring(digits, 5, 7)
        \o <<" ">> \o Substring(digits, 7, 9)

\* formatGeorgianPhone: keeps the digits and '+' of the input; nine digits
\* are the number, else what follows a leading +995 is; "" unless that has
\* nine characters
formatGeorgianPhone(phone) ==
    IF Falsy(phone) THEN <<>>
    ELSE LET cleaned == SelectSeq(phone, KeepDigitOrPlus)
         IN IF NineDigits(cleaned)
            THEN Grouped(cleaned)
            ELSE IF StartsWith(cleaned, CountryCode)
            THEN LET digits == Substring(cleaned, 4, Len(cleaned))
                 IN IF Len(digits) # 9 THEN <<>> ELSE Grouped(digits)
            ELSE <<>>

\* the characters .replace(/[^\d+\s-]/g, "") keeps
KeepPhoneChar(c) == IsDigit(c) \/ c = "+" \/ IsSpace(c) \/ c = "-"

\* sanitizePhone: the formatted number when formatGeorgianPhone gives one,
\* else trim, drop the other characters, slice
sanitizePhone(phone) ==
    IF Falsy(phone) THEN <<>>
    ELSE IF formatGeorgianPhone(phone) # <<>> THEN formatGeorgianPhone(phone)
    ELSE Slice(SelectSeq(Trim(phone), KeepPhoneChar), MaxPhoneLen)

(* ----------------------- school handlers: decisions --------------------- *)

\* getAllSchools: the where clause; None is the empty filter {}
ListFilterEmployeeSeesAll(userId, userRole) == None

ListFilterNoRoleSeesOwn(userId, userRole) ==
    IF userId # None /\ userRole # "admin" THEN userId ELSE None

ListFilter(userId, userRole) ==
    IF userId # None /\ userRole # None
    THEN (IF userRole = "admin" THEN None ELSE userId)
    ELSE None

\* getSchoolById: the 403 condition
ViewForbiddenNever(userId, userRole, createdBy) == FALSE

ViewForbidden(userId, userRole, createdBy) ==
    userId # None /\ userRole = "employee" /\ createdBy # userId

\* updateSchool / deleteSchool: the 403 condition
WriteForbiddenNever(userId, userRole, createdBy) == FALSE

WriteForbidden(userId, userRole, createdBy) ==
    userRole = "employee" /\ createdBy # userId

\* the keys sanitizeSchoolData sanitizes as free text
StringFields == {"name", "description"}

\* the keys sanitizeSchoolData sanitizes as URLs
UrlFields == {"schoolsWebSite", "facebookProfileURL", "instagramProfileURL"}

\* the keys of the five nested sub-objects
NestedFields == ChildKinds

\* sanitizeSchoolData: a present free-text key is sanitized, every other
\* key of the payload is copied as it is
sanitizeSchoolData(data) ==
    [k \in DOMAIN data |->
        IF k \in StringFields THEN sanitizeString(data[k])
        ELSE IF k \in UrlFields THEN sanitizeUrl(data[k])
        ELSE data[k]]

\* transformNestedUpdates: a nested key k becomes k: {update: ...}, which
\* the update applies to the child row; the other keys are passed on
transformNestedUpdatesResetAbsent(data) ==
    [scalars |-> [k \in DOMAIN data \ NestedFields |-> data[k]],
     nested  |-> [k \in NestedFields |->
                     IF k \in DOMAIN data THEN data[k] ELSE None]]

transformNestedUpdates(data) ==
    [scalars |-> [k \in DOMAIN data \ NestedFields |-> data[k]],
     nested  |-> [k \in DOMAIN data \cap NestedFields |-> data[k]]]

(* -------------------------------- state --------------------------------- *)

VARIABLES
    schools,      \* SchoolData rows: school id -> [createdBy, updatedBy, name,
                  \* founder, schoolsWebSite]
    children,     \* the five 1:1 child tables: kind -> (school id -> value)
    media,        \* Media rows, in insertion order
    userRoles,    \* UserRole rows: user id -> role, None when there is no row
    idpAccounts,  \* the accounts of the identity provider
    nextId,       \* the id the next created school gets
    started,      \* requests received so far
    req,          \* the requests being served: slot -> request context
    call          \* a sanitizer applied by itself: [fn, arg, ret, times]

vars == <<schools, children, media, userRoles, idpAccounts, nextId, started, req,
          call>>

db == <<schools, children, media, userRoles, idpAccounts>>

\* the body of a POST /api/schools as far as the handler reads it here:
\* whether schoolSchema accepts it, its name, the createdBy it carries
\* (None when it carries none) and the number of inline primary photo URLs
NoBody ==
    [valid |-> FALSE, name |-> <<>>, createdBy |-> None, photos |-> 0,
     founder |-> <<>>, schoolsWebSite |-> <<>>]

\* no sanitizer was applied
NoCall == [fn |-> "none", arg |-> <<>>, ret |-> <<>>, times |-> 0]

IdleReq ==
    [pc |-> "idle", route |-> "none", header |-> <<>>, stage |-> 0,
     user |-> None, role |-> None, id |-> 0, loaded |-> None,
     status |-> 0, sentBy |-> "none", responses |-> 0, handlerCalled |-> FALSE,
     idpCalls |-> 0, dbCalls |-> 0, result |-> <<>>,
     paged |-> FALSE, pageNum |-> 0, pageSizeNum |-> 0, totalCount |-> 0,
     body |-> NoBody, rows |-> <<>>, newRole |-> None, created |-> None,
     verify |-> None, caught |-> FALSE, items |-> <<>>, totalPages |-> 0,
     payload |-> {}]

Init ==
    /\ schools = <<>>
    /\ children = [k \in ChildKinds |-> <<>>]
    /\ media = <<>>
    /\ userRoles = InitRoles
    /\ idpAccounts = InitAccounts
    /\ nextId = 1
    /\ started = 0
    /\ req = [r \in Slots |-> IdleReq]
    /\ call = NoCall

(* --------------------------- request plumbing --------------------------- *)

\* res.status(code).json(...) followed by return
Respond(q, code, by) ==
    [q EXCEPT !.pc = "done", !.status = code, !.sentBy = by,
              !.responses = q.responses + 1]

\* a catch block is entered: console.error(...), then the answer
CatchAnswers401(q, code, by) == [Respond(q, 401, by) EXCEPT !.caught = TRUE]

Catch(q, code, by) == [Respond(q, code, by) EXCEPT !.caught = TRUE]

\* next(): the following middleware of the route, or its handler
CallNext(q) ==
    [q EXCEPT !.pc = Stage(q.route, q.stage + 1), !.stage = q.stage + 1,
              !.handlerCalled = (Stage(q.route, q.stage + 1) = "handler")]

\* a database or provider call is issued and awaited at pc
AwaitDb(q, pc) == [q EXCEPT !.pc = pc, !.dbCalls = q.dbCalls + 1]

AwaitIdp(q, pc) == [q EXCEPT !.pc = pc, !.idpCalls = q.idpCalls + 1]

(* ----------------------- middleware, up to an await --------------------- *)

\* authenticate: the header check, then the call of
\* supabase.auth.getUser(token)
Authenticate(q) ==
    IF ~StartsWithBearer(q.header)
    THEN Respond(q, 401, "authenticate")
    ELSE AwaitIdp(q, "getUser")

\* optionalAuthenticate: a request without the header goes on with no
\* user and no role; with a header it verifies the token as authenticate
OptionalAuthenticate(q) ==
    IF q.header = <<>> THEN CallNext(q)
    ELSE IF ~StartsWithBearer(q.header)
    THEN Respond(q, 401, "optionalAuthenticate")
    ELSE AwaitIdp(q, "getUser")

\* requireAuth
RequireAuthNoReturn(q) ==
    IF ~RequireAuthPass(q.role)
    THEN [CallNext(q) EXCEPT !.status = 403, !.sentBy = "requireAuth",
                             !.responses = q.responses + 1]
    ELSE CallNext(q)

RequireAuth(q) ==
    IF ~RequireAuthPass(q.role)
    THEN Respond(q, 403, "requireAuth")
    ELSE CallNext(q)

\* requireAdmin
RequireAdmin(q) ==
    IF ~RequireAdminPass(q.role)
    THEN Respond(q, 403, "requireAdmin")
    ELSE CallNext(q)

(* ------------------- handlers, up to their first await ------------------ *)

\* the page and pageSize query parameters, <<>> when absent
PageQueries == {[page |-> <<>>, pageSize |-> <<>>],
                [page |-> <<1>>, pageSize |-> <<1>>],
                [page |-> <<2>>, pageSize |-> <<>>]}

\* parseInt(x) || d
ParseIntOr(x, d) == IF x = <<>> \/ x[1] = 0 THEN d ELSE x[1]

\* getAllSchools: findMany without paging parameters, else count
GetAllSchools(q, query) ==
    IF query.page = <<>> /\ query.pageSize = <<>>
    THEN AwaitDb(q, "list_find")
    ELSE [AwaitDb(q, "list_count") EXCEPT
             !.paged = TRUE,
             !.pageNum = ParseIntOr(query.page, 1),
             !.pageSizeNum = ParseIntOr(query.pageSize, 50)]

\* getSchoolById: findUnique
GetSchoolById(q, id) == [AwaitDb(q, "get_find") EXCEPT !.id = id]

CreateBodies ==
    {NoBody,
     [valid |-> TRUE,  name |-> <<"a">>,      createdBy |-> None, photos |-> 0,
      founder |-> <<"f">>, schoolsWebSite |-> Https \o <<"x">>],
     [valid |-> TRUE,  name |-> <<"<", "b">>, createdBy |-> "b",  photos |-> 1,
      founder |-> <<"<", "f">>, schoolsWebSite |-> <<"j", "s", ":", "x">>]}

\* schoolSchema.parse(body) does not throw a ZodError
SchemaAccepts(body) == body.valid

\* createSchool: the user check, the schema, then prisma.schoolData.create
CreateSchoolUnvalidated(q0, body) ==
    LET q == [q0 EXCEPT !.body = body]
    IN IF q.user = None THEN Respond(q, 401, "handler")
       ELSE AwaitDb(q, "create_write")

CreateSchool(q0, body) ==
    LET q == [q0 EXCEPT !.body = body]
    IN IF q.user = None THEN Respond(q, 401, "handler")
       ELSE IF ~SchemaAccepts(body) THEN Catch(q, 400, "handler")
       ELSE AwaitDb(q, "create_write")

\* updateSchool: findUnique
UpdateSchool(q, id) == [AwaitDb(q, "update_load") EXCEPT !.id = id]

\* deleteSchool: findUnique
DeleteSchool(q, id) == [AwaitDb(q, "delete_load") EXCEPT !.id = id]

\* a Media row; None is a null tag, 0 a null parent column
MediaRow(url, type, attachedTo, schoolId, primaryId, basicId, secondaryId) ==
    [mediaUrl |-> url, type |-> type, attachedTo |-> attachedTo,
     schoolId |-> schoolId, primaryLevelId |-> primaryId,
     basicLevelId |-> basicId, secondaryLevelId |-> secondaryId]

\* an incoming media item: the JavaScript types of mediaUrl and attachedId,
\* the id, and the two tags
Item(urlType, idType, id, type, attachedTo) ==
    [urlType |-> urlType, idType |-> idType, attachedId |-> id,
     type |-> type, attachedTo |-> attachedTo]

GoodSchoolItem == Item("string", "string", 1, "photo", "school")

GoodPrimaryItem == Item("string", "number", 1, "video", "primary")

BadTypeItem == Item("string", "string", 1, "audio", "school")

\* a null element of the array: reading a property of it throws a TypeError
NullItem == Item(None, None, 0, None, None)

\* bodies of POST /api/media
MediaBodies ==
    {[isArray |-> FALSE, items |-> <<>>],
     [isArray |-> TRUE,  items |-> <<>>],
     [isArray |-> TRUE,  items |-> <<GoodSchoolItem>>],
     [isArray |-> TRUE,  items |-> <<GoodPrimaryItem, BadTypeItem>>],
     [isArray |-> TRUE,  items |-> <<GoodSchoolItem, BadTypeItem, GoodPrimaryItem>>],
     [isArray |-> TRUE,  items |-> <<BadTypeItem, NullItem>>],
     [isArray |-> TRUE,  items |-> <<GoodSchoolItem, NullItem>>]}

\* the item passes the check of the loop
ItemValid(item) ==
    /\ item.urlType = "string"
    /\ item.idType \in {"number", "string"}
    /\ item.type \in {"photo", "video"}
    /\ item.attachedTo \in {"school", "primary", "basic", "secondary"}

\* the row pushed for a valid item: the parent column its tag names
ItemRow(item) ==
    MediaRow("u", item.type, item.attachedTo,
             IF item.attachedTo = "school" THEN item.attachedId ELSE 0,
             IF item.attachedTo = "primary" THEN item.attachedId ELSE 0,
             IF item.attachedTo = "basic" THEN item.attachedId ELSE 0,
             IF item.attachedTo = "secondary" THEN item.attachedId ELSE 0)

\* the index of the first item the loop does not push, 0 when it pushes all
FirstRefused(items) ==
    LET refused == {i \in 1..Len(items) : ~ItemValid(items[i])}
    IN IF refused = {} THEN 0
       ELSE CHOOSE i \in refused : \A j \in refused : i <= j

\* createMedia: the loop ends the request at the first item it does not
\* push, with 400 for an invalid item and through the catch (500) for a
\* null one; an empty list is answered 400; else prisma.media.createMany
CreateMedia(q0, body) ==
    LET q == [q0 EXCEPT !.items = body.items]
        first == FirstRefused(body.items)
    IN IF ~body.isArray THEN Respond(q, 400, "handler")
       ELSE IF first # 0
       THEN (IF body.items[first] = NullItem
             THEN Catch(q, 500, "handler")
             ELSE Respond(q, 400, "handler"))
       ELSE IF Len(body.items) = 0 THEN Respond(q, 400, "handler")
       ELSE [AwaitDb(q, "media_write") EXCEPT
                !.rows = [i \in 1..Len(body.items) |-> ItemRow(body.items[i])]]

\* bodies of POST /api/auth/create-employee: whether email and password
\* are there, and the role (None when it is missing)
EmployeeBodies ==
    {[complete |-> FALSE, role |-> "employee"],
     [complete |-> TRUE,  role |-> "owner"],
     [complete |-> TRUE,  role |-> "employee"],
     [complete |-> TRUE,  role |-> "admin"]}

\* createEmployee: the two body checks, the admin recheck, then
\* auth.admin.createUser
CreateEmployee(q, body) ==
    IF ~body.complete \/ body.role = None THEN Respond(q, 400, "handler")
    ELSE IF body.role \notin {"employee", "admin"} THEN Respond(q, 400, "handler")
    ELSE IF q.role # "admin" THEN Respond(q, 403, "handler")
    ELSE [AwaitIdp(q, "emp_createUser") EXCEPT !.newRole = body.role]

\* what the handler of a route reads of the request before its first await
EntryInputs(route) ==
    CASE route = "listSchools"    -> PageQueries
      [] route = "createSchool"   -> CreateBodies
      [] route = "createMedia"    -> MediaBodies
      [] route = "createEmployee" -> EmployeeBodies
      [] OTHER                    -> SchoolIds

\* the handler the router calls for the route
Handler(q, inp) ==
    CASE q.route = "listSchools"    -> GetAllSchools(q, inp)
      [] q.route = "getSchool"      -> GetSchoolById(q, inp)
      [] q.route = "createSchool"   -> CreateSchool(q, inp)
      [] q.route = "updateSchool"   -> UpdateSchool(q, inp)
      [] q.route = "deleteSchool"   -> DeleteSchool(q, inp)
      [] q.route = "createMedia"    -> CreateMedia(q, inp)
      [] OTHER                      -> CreateEmployee(q, inp)

\* the request runs without interruption until it awaits or has answered
RECURSIVE RunSync(_, _)
RunSync(q, inp) ==
    CASE q.pc = "authenticate"         -> RunSync(Authenticate(q), inp)
      [] q.pc = "optionalAuthenticate" -> RunSync(OptionalAuthenticate(q), inp)
      [] q.pc = "requireAuth"          -> RunSync(RequireAuth(q), inp)
      [] q.pc = "requireAdmin"         -> RunSync(RequireAdmin(q), inp)
      [] q.pc = "handler"              -> Handler(q, inp)
      [] OTHER                         -> q

\* the inputs that tell the runs of q to its next await apart: those of
\* the handler when q reaches it, else any one
InputsRead(q) ==
    LET any == CHOOSE x \in EntryInputs(q.route) : TRUE
    IN IF RunSync(q, any).handlerCalled THEN EntryInputs(q.route) ELSE {any}

(* ------------------------- a request is received ------------------------ *)

\* the context of a request the router hands to the first stage of its route
Arrived(route, h) == CallNext([IdleReq EXCEPT !.route = route, !.header = h])

\* a request arrives on a free slot, is routed and runs to its first await
Receive(r, route, h, inp) ==
    /\ req[r].pc \in {"idle", "done"}
    /\ \A s \in Slots : s < r => req[s].pc \notin {"idle", "done"}
    /\ started < MaxRequests
    /\ inp \in EntryInputs(route)
    /\ started' = started + 1
    /\ req' = [req EXCEPT ![r] = RunSync(Arrived(route, h), inp)]
    /\ UNCHANGED <<schools, children, media, userRoles, idpAccounts, nextId>>
    /\ UNCHANGED call

(* --------------------------- authenticate resumes ----------------------- *)

\* what supabase.auth.getUser can answer for a token: the user when the
\* token is one of an account, an error, neither, or an exception
GetUserOutcomes(token) ==
    {"error", "noUser", "throws"} \cup (IF token \in idpAccounts THEN {"user"} ELSE {})

\* authenticate after getUser, as a function of the provider's answer:
\* 401 on (error || !user), 500 from the catch when the call throws
VerifyStatusAlways401(outcome) == IF outcome = "user" THEN 0 ELSE 401

VerifyStatus(outcome) ==
    CASE outcome = "throws"               -> 500
      [] outcome \in {"error", "noUser"}  -> 401
      [] OTHER                            -> 0

\* getUser returns: reject, or attach the user and look the role row up
GetUserReturns(r, outcome) ==
    LET q == req[r] IN
    /\ q.pc = "getUser"
    /\ outcome \in GetUserOutcomes(TokenOf(q.header))
    /\ req' = [req EXCEPT ![r] =
                  IF outcome = "throws"
                  THEN Catch([q EXCEPT !.verify = outcome],
                             VerifyStatus(outcome), Chain(q.route)[1])
                  ELSE IF VerifyStatus(outcome) # 0
                  THEN Respond([q EXCEPT !.verify = outcome],
                               VerifyStatus(outcome), Chain(q.route)[1])
                  ELSE [AwaitDb(q, "roleLookup") EXCEPT
                           !.verify = outcome, !.user = TokenOf(q.header)]]
    /\ UNCHANGED <<db, nextId, started>>
    /\ UNCHANGED call

\* prisma.userRole.findUnique returns: the catch answers 500 when it
\* throws, else the role is attached, next() is called and the request
\* runs to the first await of its handler
RoleLookupReturns(r, throws, inp) ==
    LET q == req[r] IN
    /\ q.pc = "roleLookup"
    /\ inp \in EntryInputs(q.route)
    /\ req' = [req EXCEPT ![r] =
                  IF throws
                  THEN Catch(q, 500, Chain(q.route)[1])
                  ELSE RunSync(CallNext([q EXCEPT !.role =
                                            ResolveRole(userRoles[q.user])]),
                               inp)]
    /\ UNCHANGED <<db, nextId, started>>
    /\ UNCHANGED call

(* ------------------------------ getAllSchools --------------------------- *)

\* the ids a where clause selects
Selected(filter) ==
    {i \in DOMAIN schools : filter = None \/ schools[i].createdBy = filter}

\* orderBy createdAt desc: ids are handed out in creation order
RECURSIVE NewestFirst(_)
NewestFirst(S) ==
    IF S = {} THEN <<>>
    ELSE LET m == CHOOSE x \in S : \A y \in S : y <= x
         IN <<m>> \o NewestFirst(S \ {m})

\* skip / take
SkipTake(seq, skip, take) ==
    SubSeq(seq, skip + 1, IF skip + take < Len(seq) THEN skip + take ELSE Len(seq))

\* prisma.schoolData.count returns
ListCountReturns(r, throws) ==
    LET q == req[r] IN
    /\ q.pc = "list_count"
    /\ req' = [req EXCEPT ![r] =
                  IF throws
                  THEN Catch(q, 500, "handler")
                  ELSE [AwaitDb(q, "list_find") EXCEPT
                           !.totalCount =
                               Cardinality(Selected(ListFilter(q.user, q.role)))]]
    /\ UNCHANGED <<db, nextId, started>>
    /\ UNCHANGED call

\* Math.ceil(totalCount / pageSizeNum)
TotalPagesFloor(totalCount, pageSizeNum) == totalCount \div pageSizeNum

TotalPages(totalCount, pageSizeNum) ==
    IF totalCount % pageSizeNum = 0
    THEN totalCount \div pageSizeNum
    ELSE (totalCount \div pageSizeNum) + 1

\* prisma.schoolData.findMany returns and the list is answered
ListFindReturns(r, throws) ==
    LET q == req[r]
        all == NewestFirst(Selected(ListFilter(q.user, q.role)))
    IN
    /\ q.pc = "list_find"
    /\ req' = [req EXCEPT ![r] =
                  IF throws
                  THEN Catch(q, 500, "handler")
                  ELSE Respond([q EXCEPT
                                   !.result =
                                       IF q.paged
                                       THEN SkipTake(all, (q.pageNum - 1) * q.pageSizeNum,
                                                     q.pageSizeNum)
                                       ELSE all,
                                   !.totalPages =
                                       IF q.paged
                                       THEN TotalPages(q.totalCount, q.pageSizeNum)
                                       ELSE 0],
                               200, "handler")]
    /\ UNCHANGED <<db, nextId, started>>
    /\ UNCHANGED call

(* ------------------------------ getSchoolById --------------------------- *)

\* findUnique returns: 404, 403 or the record
GetFindReturns(r, throws) ==
    LET q == req[r] IN
    /\ q.pc = "get_find"
    /\ req' = [req EXCEPT ![r] =
                  IF throws THEN Catch(q, 500, "handler")
                  ELSE IF q.id \notin DOMAIN schools THEN Respond(q, 404, "handler")
                  ELSE IF ViewForbidden(q.user, q.role, schools[q.id].createdBy)
                  THEN Respond(q, 403, "handler")
                  ELSE Respond([q EXCEPT !.result = <<q.id>>], 200, "handler")]
    /\ UNCHANGED <<db, nextId, started>>
    /\ UNCHANGED call

(* ------------------------------ createSchool ---------------------------- *)

\* primary.media.create: one photo row per inline URL, under the new
\* primary level
InlineMedia(body, id) ==
    [i \in 1..body.photos |-> MediaRow("u", "photo", None, 0, id, 0, 0)]

\* the SchoolData row createSchool writes
NewSchoolRowOwnerFromBody(body, userId) ==
    [createdBy |-> IF body.createdBy # None THEN body.createdBy ELSE userId,
     updatedBy |-> None, name |-> sanitizeString(body.name),
     founder |-> body.founder,
     schoolsWebSite |-> sanitizeUrl(body.schoolsWebSite)]

NewSchoolRow(body, userId) ==
    [createdBy |-> userId, updatedBy |-> None, name |-> sanitizeString(body.name),
     founder |-> body.founder,
     schoolsWebSite |-> sanitizeUrl(body.schoolsWebSite)]

\* address / infrastructure / primary / basic / secondary: { create: ... },
\* the child tables with the five rows of the new record id
NewChildrenWhenGiven(id) ==
    [k \in ChildKinds |->
        IF k = "address" THEN children[k] ELSE children[k] @@ (id :> "v0")]

NewChildren(id) == [k \in ChildKinds |-> children[k] @@ (id :> "v0")]

\* prisma.schoolData.create returns: the row, its five children and the
\* inline media are written together, or nothing is and the catch answers 500
CreateWriteReturns(r, throws) ==
    LET q == req[r]
        id == nextId
        fits == nextId <= MaxSchools
                /\ Len(media) + q.body.photos <= MaxMedia
    IN
    /\ q.pc = "create_write"
    /\ throws \/ fits
    /\ IF throws
       THEN /\ req' = [req EXCEPT ![r] = Catch(q, 500, "handler")]
            /\ UNCHANGED <<db, nextId>>
       ELSE /\ schools' = schools @@ (id :> NewSchoolRow(q.body, q.user))
            /\ children' = NewChildren(id)
            /\ media' = media \o InlineMedia(q.body, id)
            /\ nextId' = nextId + 1
            /\ req' = [req EXCEPT ![r] =
                          Respond([q EXCEPT !.id = id, !.result = <<id>>],
                                  201, "handler")]
            /\ UNCHANGED <<userRoles, idpAccounts>>
    /\ UNCHANGED started
    /\ UNCHANGED call

(* ------------------------------ updateSchool ---------------------------- *)

\* bodies of PUT /api/schools/:id: the keys they carry and their values
\* a URL in upper case after a space, longer than the cap of sanitizeUrl
LongUrl == <<" ", "H", "T", "T", "P", ":", "/", "/">> \o Repeat("y", MaxUrlLen)

UpdateBodies ==
    {[name |-> <<"<", "b">>],
     [createdBy |-> "b"],
     [address |-> "v1", updatedBy |-> "b", founder |-> <<"<", "g">>,
      schoolsWebSite |-> LongUrl]}

\* findUnique returns: 404, 403, or the update is issued; the catch of
\* updateSchool answers 400
UpdateLoadReturns(r, throws) ==
    LET q == req[r] IN
    /\ q.pc = "update_load"
    /\ req' = [req EXCEPT ![r] =
                  IF throws THEN Catch(q, 400, "handler")
                  ELSE IF q.id \notin DOMAIN schools THEN Respond(q, 404, "handler")
                  ELSE IF WriteForbidden(q.user, q.role, schools[q.id].createdBy)
                  THEN Respond([q EXCEPT !.loaded = schools[q.id].createdBy],
                               403, "handler")
                  ELSE [AwaitDb(q, "update_write") EXCEPT
                           !.loaded = schools[q.id].createdBy]]
    /\ UNCHANGED <<db, nextId, started>>
    /\ UNCHANGED call

\* the data object of prisma.schoolData.update
UpdateData(data, userId) ==
    LET t == transformNestedUpdates(sanitizeSchoolData(data))
    IN [scalars |-> [k \in DOMAIN t.scalars \cup {"updatedBy"} |->
                        IF k = "updatedBy" THEN userId ELSE t.scalars[k]],
        nested  |-> t.nested]

\* a row with the scalar keys of an update applied
ApplyScalars(row, scalars) ==
    [k \in DOMAIN row |-> IF k \in DOMAIN scalars THEN scalars[k] ELSE row[k]]

\* prisma.schoolData.update returns: the row and the named children are
\* updated in place; it throws when the row is gone
UpdateWriteReturns(r, data, throws) ==
    LET q == req[r]
        u == UpdateData(data, q.user)
    IN
    /\ q.pc = "update_write"
    /\ data \in UpdateBodies
    /\ IF throws \/ q.id \notin DOMAIN schools
       THEN /\ req' = [req EXCEPT ![r] = Catch(q, 400, "handler")]
            /\ UNCHANGED db
       ELSE /\ schools' = [schools EXCEPT ![q.id] = ApplyScalars(@, u.scalars)]
            /\ children' = [k \in ChildKinds |->
                               IF k \in DOMAIN u.nested
                               THEN [children[k] EXCEPT ![q.id] = u.nested[k]]
                               ELSE children[k]]
            /\ req' = [req EXCEPT ![r] =
                          Respond([q EXCEPT !.result = <<q.id>>,
                                            !.payload = DOMAIN data],
                                  200, "handler")]
            /\ UNCHANGED <<media, userRoles, idpAccounts>>
    /\ UNCHANGED <<nextId, started>>
    /\ UNCHANGED call

(* ------------------------------ deleteSchool ---------------------------- *)

\* a function without the key id
Without(f, id) == [i \in DOMAIN f \ {id} |-> f[i]]

\* the media rows a deleted school does not take along
KeptMedia(id) ==
    LET Keep(m) == m.schoolId # id /\ m.primaryLevelId # id
                   /\ m.basicLevelId # id /\ m.secondaryLevelId # id
    IN SelectSeq(media, Keep)

\* findUnique returns: 404, 403, or the delete is issued
DeleteLoadReturns(r, throws) ==
    LET q == req[r] IN
    /\ q.pc = "delete_load"
    /\ req' = [req EXCEPT ![r] =
                  IF throws THEN Catch(q, 500, "handler")
                  ELSE IF q.id \notin DOMAIN schools THEN Respond(q, 404, "handler")
                  ELSE IF WriteForbidden(q.user, q.role, schools[q.id].createdBy)
                  THEN Respond([q EXCEPT !.loaded = schools[q.id].createdBy],
                               403, "handler")
                  ELSE [AwaitDb(q, "delete_write") EXCEPT
                           !.loaded = schools[q.id].createdBy]]
    /\ UNCHANGED <<db, nextId, started>>
    /\ UNCHANGED call

\* prisma.schoolData.delete returns: the row goes with its children and
\* media; it throws when the row is gone
DeleteWriteReturnsIdempotent(r, throws) ==
    LET q == req[r] IN
    /\ q.pc = "delete_write"
    /\ IF throws
       THEN /\ req' = [req EXCEPT ![r] = Catch(q, 500, "handler")]
            /\ UNCHANGED db
       ELSE /\ schools' = Without(schools, q.id)
            /\ children' = [k \in ChildKinds |-> Without(children[k], q.id)]
            /\ media' = KeptMedia(q.id)
            /\ req' = [req EXCEPT ![r] =
                          Respond([q EXCEPT !.result = <<q.id>>], 200, "handler")]
            /\ UNCHANGED <<userRoles, idpAccounts>>
    /\ UNCHANGED <<nextId, started>>
    /\ UNCHANGED call

DeleteWriteReturns(r, throws) ==
    LET q == req[r] IN
    /\ q.pc = "delete_write"
    /\ IF throws \/ q.id \notin DOMAIN schools
       THEN /\ req' = [req EXCEPT ![r] = Catch(q, 500, "handler")]
            /\ UNCHANGED db
       ELSE /\ schools' = Without(schools, q.id)
            /\ children' = [k \in ChildKinds |-> Without(children[k], q.id)]
            /\ media' = KeptMedia(q.id)
            /\ req' = [req EXCEPT ![r] =
                          Respond([q EXCEPT !.result = <<q.id>>], 200, "handler")]
            /\ UNCHANGED <<userRoles, idpAccounts>>
    /\ UNCHANGED <<nextId, started>>
    /\ UNCHANGED call

(* ------------------------------- createMedia ---------------------------- *)

\* the parent row a media row points at exists
ParentExists(m) ==
    /\ m.schoolId # 0 => m.schoolId \in DOMAIN schools
    /\ m.primaryLevelId # 0 => m.primaryLevelId \in DOMAIN children["primary"]
    /\ m.basicLevelId # 0 => m.basicLevelId \in DOMAIN children["basic"]
    /\ m.secondaryLevelId # 0 => m.secondaryLevelId \in DOMAIN children["secondary"]

\* prisma.media.createMany returns
MediaWriteReturns(r, throws) ==
    LET q == req[r]
        fits == Len(media) + Len(q.rows) <= MaxMedia
    IN
    /\ q.pc = "media_write"
    /\ throws \/ fits
    /\ IF throws \/ \E i \in 1..Len(q.rows) : ~ParentExists(q.rows[i])
       THEN /\ req' = [req EXCEPT ![r] = Catch(q, 500, "handler")]
            /\ UNCHANGED db
       ELSE /\ media' = media \o q.rows
            /\ req' = [req EXCEPT ![r] = Respond(q, 201, "handler")]
            /\ UNCHANGED <<schools, children, userRoles, idpAccounts>>
    /\ UNCHANGED <<nextId, started>>
    /\ UNCHANGED call

(* ------------------------------ createEmployee -------------------------- *)

\* createUser returns: a new account, an error answer, or an exception
CreateUserReturns(r, outcome, newId) ==
    LET q == req[r] IN
    /\ q.pc = "emp_createUser"
    /\ outcome \in {"user", "error", "throws"}
    /\ newId \in Users
    /\ IF outcome = "user"
       THEN /\ newId \notin idpAccounts
            /\ idpAccounts' = idpAccounts \cup {newId}
            /\ req' = [req EXCEPT ![r] =
                          [AwaitDb(q, "emp_roleWrite") EXCEPT !.created = newId]]
       ELSE /\ newId = "e1"
            /\ req' = [req EXCEPT ![r] =
                          IF outcome = "throws"
                          THEN Catch(q, 500, "handler")
                          ELSE Respond(q, 500, "handler")]
            /\ UNCHANGED idpAccounts
    /\ UNCHANGED <<schools, children, media, userRoles, nextId, started>>
    /\ UNCHANGED call

\* prisma.userRole.create returns
RoleWriteReturnsCompensating(r, throws) ==
    LET q == req[r] IN
    /\ q.pc = "emp_roleWrite"
    /\ IF throws
       THEN /\ req' = [req EXCEPT ![r] = Catch(q, 500, "handler")]
            /\ idpAccounts' = idpAccounts \ {q.created}
            /\ UNCHANGED userRoles
       ELSE /\ userRoles' = [userRoles EXCEPT ![q.created] = q.newRole]
            /\ req' = [req EXCEPT ![r] = Respond(q, 201, "handler")]
            /\ UNCHANGED idpAccounts
    /\ UNCHANGED <<schools, children, media, nextId, started>>
    /\ UNCHANGED call

RoleWriteReturns(r, throws) ==
    LET q == req[r] IN
    /\ q.pc = "emp_roleWrite"
    /\ IF throws
       THEN /\ req' = [req EXCEPT ![r] = Catch(q, 500, "handler")]
            /\ UNCHANGED userRoles
       ELSE /\ userRoles' = [userRoles EXCEPT ![q.created] = q.newRole]
            /\ req' = [req EXCEPT ![r] = Respond(q, 201, "handler")]
    /\ UNCHANGED <<schools, children, media, idpAccounts, nextId, started>>
    /\ UNCHANGED call

(* ------------------------------ specification --------------------------- *)

\* every way the request in slot r can go on, and a new one arrive there
Serve(r) ==
    \/ \E route \in Routes, h \in Headers :
          \E inp \in InputsRead(Arrived(route, h)) : Receive(r, route, h, inp)
    \/ \E o \in {"user", "error", "noUser", "throws"} : GetUserReturns(r, o)
    \/ \E t \in BOOLEAN :
          \E inp \in EntryInputs(req[r].route) : RoleLookupReturns(r, t, inp)
    \/ \E t \in BOOLEAN : ListCountReturns(r, t)
    \/ \E t \in BOOLEAN : ListFindReturns(r, t)
    \/ \E t \in BOOLEAN : GetFindReturns(r, t)
    \/ \E t \in BOOLEAN : CreateWriteReturns(r, t)
    \/ \E t \in BOOLEAN : UpdateLoadReturns(r, t)
    \/ \E data \in UpdateBodies, t \in BOOLEAN : UpdateWriteReturns(r, data, t)
    \/ \E t \in BOOLEAN : DeleteLoadReturns(r, t)
    \/ \E t \in BOOLEAN : DeleteWriteReturns(r, t)
    \/ \E t \in BOOLEAN : MediaWriteReturns(r, t)
    \/ \E o \in {"user", "error", "throws"}, u \in Users : CreateUserReturns(r, o, u)
    \/ \E t \in BOOLEAN : RoleWriteReturns(r, t)

\* the requests are served one after the other
Next == Serve(1)

Spec == Init /\ [][Next]_vars

(* -------------------------------- claims -------------------------------- *)

WriteRoutes == {"updateSchool", "deleteSchool"}

\* the routes that mount authenticate and then requireAuth or requireAdmin
ProtectedRoutes ==
    {route \in Routes : /\ Len(Chain(route)) = 2
                        /\ Chain(route)[1] = "authenticate"
                        /\ Chain(route)[2] \in {"requireAuth", "requireAdmin"}}

\* the slot took a step
Stepped(r) == req'[r] # req[r]

\* the request carries a bearer token the identity provider issued
CarriesValidToken(q) ==
    StartsWithBearer(q.header) /\ TokenOf(q.header) \in idpAccounts

\* the elements of a sequence
Range(seq) == {seq[i] : i \in 1..Len(seq)}

\* C1: when the ownership check of a PUT or DELETE finds a record owned by
\* another user, an employee is answered 403 in that very step, no write
\* was issued and no row of storage changes; an admin is never stopped by
\* the check, and when its write returns without an exception the answer is
\* 200 and the record is updated or gone.
OwnershipEnforcedOnWrite ==
    [][\A r \in Slots :
          LET q  == req[r]
              q2 == req'[r]
          IN /\ ( /\ q.pc \in {"update_load", "delete_load"}
                  /\ Stepped(r) /\ ~q2.caught
                  /\ q.id \in DOMAIN schools )
                => /\ ( q.role = "employee" /\ schools[q.id].createdBy # q.user )
                      => /\ q2.pc = "done" /\ q2.status = 403
                         /\ q2.dbCalls = q.dbCalls
                         /\ db' = db
                   /\ q.role = "admin"
                      => /\ q2.pc \in {"update_write", "delete_write"}
                         /\ q2.status = 0
             /\ ( /\ q.pc \in {"update_write", "delete_write"}
                  /\ Stepped(r) /\ ~q2.caught /\ q.role = "admin" )
                => /\ q2.pc = "done" /\ q2.status = 200
                   /\ q.pc = "delete_write" => q.id \notin DOMAIN schools'
                   /\ q.pc = "update_write" => schools'[q.id].updatedBy = q.user
      ]_vars

\* C1 witness: employee b was answered 403 for a write of a record a owns
EmployeeWriteRefused ==
    /\ req[1].route \in WriteRoutes /\ req[1].pc = "done"
    /\ req[1].status = 403 /\ req[1].sentBy = "handler"
    /\ req[1].user = "b" /\ req[1].role = "employee"
    /\ req[1].id \in DOMAIN schools /\ schools[req[1].id].createdBy = "a"

\* C2: the list answered to an authenticated employee holds exactly the
\* records whose createdBy is the employee, the list answered to an admin
\* or to a caller without a header holds every record (a paged answer
\* holds a part of these).
ListVisibility ==
    [][\A r \in Slots :
          LET q  == req[r]
              q2 == req'[r]
              mine == {i \in DOMAIN schools : schools[i].createdBy = q.user}
              expected == IF q.user # None /\ q.role = "employee"
                          THEN mine ELSE DOMAIN schools
          IN ( /\ q.pc = "list_find" /\ Stepped(r) /\ q2.status = 200
               /\ \/ q.user # None /\ q.role \in {"employee", "admin"}
                  \/ q.header = <<>> )
             => /\ ~q.paged => Range(q2.result) = expected
                /\ q.paged => Range(q2.result) \subseteq expected
      ]_vars

\* C2 witness: with a record of a and a record of b stored, employee a was
\* answered the full list, which holds one record
EmployeeListsOwn ==
    /\ req[1].route = "listSchools" /\ req[1].pc = "done" /\ req[1].status = 200
    /\ ~req[1].paged
    /\ req[1].user = "a" /\ req[1].role = "employee"
    /\ \E i, j \in DOMAIN schools :
          /\ schools[i].createdBy = "a" /\ schools[j].createdBy = "b"
          /\ req[1].result = <<i>>

\* C3: a step that inserts, updates or deletes a row is a step of a
\* request that carries a valid bearer token.
PublicCallersReadOnly ==
    [][db' # db => \E r \in Slots : Stepped(r) /\ CarriesValidToken(req[r])]_vars

\* C4: a new record's createdBy is the caller that created it, and no step
\* changes the createdBy of a stored record.
OwnerImmutable ==
    [][/\ \A i \in DOMAIN schools \cap DOMAIN schools' :
             schools'[i].createdBy = schools[i].createdBy
       /\ \A i \in DOMAIN schools' \ DOMAIN schools :
             \E r \in Slots : Stepped(r) /\ schools'[i].createdBy = req[r].user
      ]_vars

\* C5: a request on a protected route whose token was verified and whose
\* user has no role row is answered 403 by requireAuth or requireAdmin, its
\* handler is not called, and the role lookup is the only database call it
\* ever made.
NoRoleNeverProtected ==
    \A r \in Slots :
        LET q == req[r]
        IN ( /\ q.route \in ProtectedRoutes
             /\ q.user # None /\ q.role = None /\ q.stage >= 2 )
           => /\ q.pc = "done" /\ q.status = 403
              /\ q.sentBy \in {"requireAuth", "requireAdmin"}
              /\ ~q.handlerCalled
              /\ q.dbCalls = 1 /\ q.idpCalls = 1

\* C5 witness: the account without a role row was refused a school create
NoRoleRefused ==
    /\ req[1].route = "createSchool" /\ req[1].pc = "done"
    /\ req[1].user = "n" /\ userRoles["n"] = None
    /\ req[1].status = 403 /\ req[1].sentBy = "requireAuth"

\* C6: when the lookup of GET /api/schools/:id returns, the answer is 404
\* when no record has the id; when the record exists it is 403 exactly when
\* the caller is an authenticated employee other than the record's creator,
\* and 200 with the record for every other caller.
GetByIdAuthorization ==
    [][\A r \in Slots :
          LET q  == req[r]
              q2 == req'[r]
              found == q.id \in DOMAIN schools
              stranger == /\ q.user # None /\ q.role = "employee"
                          /\ schools[q.id].createdBy # q.user
          IN ( q.pc = "get_find" /\ Stepped(r) /\ ~q2.caught )
             => /\ q2.pc = "done" /\ q2.responses = 1
                /\ ~found => q2.status = 404
                /\ found => /\ q2.status = 403 <=> stranger
                            /\ q2.status = 200 <=> ~stranger
                            /\ q2.status = 200 => q2.result = <<q.id>>
                /\ db' = db
      ]_vars

\* C6 witness: employee b was answered 403 for the read of a record of a
EmployeeReadRefused ==
    /\ req[1].route = "getSchool" /\ req[1].pc = "done" /\ req[1].status = 403
    /\ req[1].user = "b" /\ req[1].role = "employee"
    /\ req[1].id \in DOMAIN schools /\ schools[req[1].id].createdBy = "a"

\* C7: a step that creates an identity-provider account or writes a
\* role-assignment row is a step of a create-employee request whose caller
\* holds the admin role; a create-employee request of any other caller
\* never reaches the provider call.
ProvisioningAdminOnly ==
    [][/\ ( idpAccounts' # idpAccounts \/ userRoles' # userRoles )
          => \E r \in Slots :
                /\ Stepped(r) /\ req[r].route = "createEmployee"
                /\ req[r].user # None /\ userRoles[req[r].user] = "admin"
       /\ \A r \in Slots :
             ( /\ req'[r].route = "createEmployee"
               /\ req'[r].pc \in {"emp_createUser", "emp_roleWrite"} )
             => /\ req'[r].user # None
                /\ userRoles[req'[r].user] = "admin"
      ]_vars

\* C7 witness: employee a asked for a new employee and was answered 403,
\* and the accounts and role rows are the initial ones
EmployeeProvisioningRefused ==
    /\ req[1].route = "createEmployee" /\ req[1].pc = "done"
    /\ req[1].user = "a" /\ req[1].role = "employee"
    /\ req[1].status = 403 /\ req[1].sentBy = "requireAdmin"
    /\ idpAccounts = InitAccounts /\ userRoles = InitRoles

\* C8: a request on an authenticate route whose Authorization header is
\* missing or does not start with Bearer is answered 401 by authenticate
\* with no provider call and no database call made, and neither the next
\* middleware nor the handler runs.
MalformedHeaderRejectedFirst ==
    \A r \in Slots :
        LET q == req[r]
        IN ( /\ q.pc # "idle"
             /\ q.route \in ProtectedRoutes
             /\ ~(Len(q.header) >= 2 /\ q.header[1] = "Bearer") )
           => /\ q.pc = "done" /\ q.status = 401 /\ q.sentBy = "authenticate"
              /\ q.idpCalls = 0 /\ q.dbCalls = 0
              /\ q.stage = 1 /\ ~q.handlerCalled /\ q.responses = 1

\* C8 witness: a Basic header on a protected route was answered 401
BasicHeaderRejected ==
    /\ req[1].route = "updateSchool" /\ req[1].header = <<"Basic", "a">>
    /\ req[1].pc = "done" /\ req[1].status = 401 /\ req[1].idpCalls = 0

\* C9, as stated: whenever the provider does not confirm the token (an
\* error, no user, or a failure of the call), authenticate answers 401 and
\* next is not invoked.
VerificationFailureIs401 ==
    \A r \in Slots :
        LET q == req[r]
        IN ( /\ q.route \in ProtectedRoutes
             /\ q.verify \in {"error", "noUser", "throws"} )
           => q.pc = "done" /\ q.status = 401 /\ q.stage = 1 /\ ~q.handlerCalled

\* C9, amended: a returned error or a missing user is answered 401, a
\* getUser call that throws is answered 500 by the catch block; in all
\* three cases authenticate sends the one response and next is not invoked.
VerificationFailureIs401Or500 ==
    \A r \in Slots :
        LET q == req[r]
        IN ( /\ q.route \in ProtectedRoutes
             /\ q.verify \in {"error", "noUser", "throws"} )
           => /\ q.pc = "done" /\ q.sentBy = "authenticate" /\ q.responses = 1
              /\ q.status = (IF q.verify = "throws" THEN 500 ELSE 401)
              /\ q.stage = 1 /\ ~q.handlerCalled /\ q.dbCalls = 0

\* C9 witness: getUser threw and authenticate answered 500
ProviderThrewAnswered500 ==
    /\ req[1].route = "createSchool" /\ req[1].verify = "throws"
    /\ req[1].pc = "done" /\ req[1].status = 500 /\ req[1].sentBy = "authenticate"

AuthMiddleware == {"authenticate", "requireAuth", "requireAdmin"}

\* C10: a request through authenticate and requireAuth or requireAdmin
\* never has both a middleware response and its handler invoked; a
\* middleware response is a single 401, 403 or 500 that ends the request;
\* once no middleware is pending exactly one of the two has happened; the
\* handler is invoked only for a verified user with a role row, and behind
\* requireAdmin only for role admin.
OneTerminalOutcome ==
    \A r \in Slots :
        LET q == req[r]
            rejected == q.sentBy \in AuthMiddleware
        IN ( q.route \in ProtectedRoutes /\ q.pc # "idle" )
           => /\ ~(rejected /\ q.handlerCalled)
              /\ q.responses <= 1
              /\ rejected => /\ q.pc = "done" /\ q.responses = 1
                             /\ q.status \in {401, 403, 500}
              /\ q.pc \notin {"getUser", "roleLookup"}
                 => ( rejected \/ q.handlerCalled )
              /\ q.handlerCalled
                 => /\ q.user # None /\ q.verify = "user"
                    /\ q.role \in {"admin", "employee"}
                    /\ q.role = userRoles[q.user]
                    /\ q.route = "createEmployee" => q.role = "admin"

\* C10 witness: the admin's create-employee request passed both middlewares
\* and its handler awaits the provider
AdminAllowedThrough ==
    /\ req[1].route = "createEmployee" /\ req[1].pc = "emp_createUser"
    /\ req[1].handlerCalled /\ req[1].role = "admin" /\ req[1].responses = 0

\* C11: when the role-assignment write of createEmployee fails after the
\* account was created, the request ends with 500 and the account exists
\* without a role row; no step ever removes an account, and a request that
\* has answered takes no further step of its handler.
ProvisioningPartialFailure ==
    [][/\ \A r \in Slots :
             LET q  == req[r]
                 q2 == req'[r]
             IN /\ ( q.pc = "emp_roleWrite" /\ Stepped(r) /\ q2.caught )
                   => /\ q2.pc = "done" /\ q2.status = 500
                      /\ q.created \in idpAccounts'
                      /\ userRoles'[q.created] = None
                /\ ( q.pc = "done" /\ Stepped(r) )
                   => /\ started' = started + 1
                      /\ db' = db
       /\ idpAccounts \subseteq idpAccounts'
      ]_vars

\* C11 witness: provisioning answered 500 and left the account it created
\* without a role row
OrphanAccountLeft ==
    /\ req[1].route = "createEmployee" /\ req[1].pc = "done"
    /\ req[1].status = 500 /\ req[1].caught
    /\ req[1].created \notin InitAccounts
    /\ req[1].created \in idpAccounts
    /\ userRoles[req[1].created] = None

(* --------------------- requests served concurrently --------------------- *)

\* a store that holds one record, created by employee a
InitConcurrent ==
    /\ schools = (1 :> [createdBy |-> "a", updatedBy |-> None, name |-> <<"a">>,
                       founder |-> <<"f">>, schoolsWebSite |-> Https \o <<"x">>])
    /\ children = [k \in ChildKinds |-> (1 :> "v0")]
    /\ media = <<>>
    /\ userRoles = InitRoles
    /\ idpAccounts = InitAccounts
    /\ nextId = 2
    /\ started = 0
    /\ req = [r \in Slots |-> IdleReq]
    /\ call = NoCall

\* every way a PUT or DELETE request in slot r can go on, and a new one
\* arrive there
ServeWrite(r) ==
    \/ \E route \in WriteRoutes, h \in Headers :
          \E inp \in InputsRead(Arrived(route, h)) : Receive(r, route, h, inp)
    \/ \E o \in {"user", "error", "noUser", "throws"} : GetUserReturns(r, o)
    \/ \E t \in BOOLEAN :
          \E inp \in EntryInputs(req[r].route) : RoleLookupReturns(r, t, inp)
    \/ \E t \in BOOLEAN : UpdateLoadReturns(r, t)
    \/ \E data \in UpdateBodies, t \in BOOLEAN : UpdateWriteReturns(r, data, t)
    \/ \E t \in BOOLEAN : DeleteLoadReturns(r, t)
    \/ \E t \in BOOLEAN : DeleteWriteReturns(r, t)

\* the awaits of the requests in flight return in any order
NextConcurrent == \E r \in Slots : ServeWrite(r)

SpecConcurrent == InitConcurrent /\ [][NextConcurrent]_vars

\* the store of InitConcurrent is one the server reaches from its start
StoreOfInitConcurrent ==
    /\ schools = (1 :> [createdBy |-> "a", updatedBy |-> None, name |-> <<"a">>,
                       founder |-> <<"f">>, schoolsWebSite |-> Https \o <<"x">>])
    /\ children = [k \in ChildKinds |-> (1 :> "v0")]
    /\ media = <<>> /\ userRoles = InitRoles /\ idpAccounts = InitAccounts
    /\ nextId = 2

\* C12: with DELETE requests served concurrently, a delete that returns
\* for a record another request has deleted meanwhile fails: it is
\* answered 500 from the catch and changes nothing; a delete answered 200
\* found the record and removed it, so a record is deleted at most once.
SecondDeleteFails ==
    [][\A r \in Slots :
          LET q  == req[r]
              q2 == req'[r]
          IN ( q.pc = "delete_write" /\ Stepped(r) )
             => /\ q.loaded # None /\ q2.pc = "done"
                /\ q.id \notin DOMAIN schools
                   => q2.status = 500 /\ q2.caught /\ db' = db
                /\ q2.status = 200
                   => q.id \in DOMAIN schools /\ q.id \notin DOMAIN schools'
      ]_vars

\* C12 witness: both requests loaded record 1 and passed the ownership
\* check, the first delete removed it and the second one failed
BothPassedOneDeleted ==
    /\ \A r \in Slots : /\ req[r].route = "deleteSchool" /\ req[r].pc = "done"
                        /\ req[r].id = 1 /\ req[r].loaded = "a"
                        /\ req[r].dbCalls = 3
    /\ req[1].status = 200
    /\ req[2].status = 500 /\ req[2].caught
    /\ 1 \notin DOMAIN schools

\* C13: a POST /api/media whose list holds an item that fails the item
\* check, at whatever position, is answered 400, and the request issues no
\* write and leaves no row.
MediaBatchRejectedWhole ==
    \A r \in Slots :
        LET q == req[r]
        IN ( /\ q.route = "createMedia" /\ q.pc # "idle"
             /\ \E i \in 1..Len(q.items) : ~ItemValid(q.items[i]) )
           => /\ q.pc = "done" /\ q.status = 400
              /\ q.dbCalls = 0 /\ q.rows = <<>>

\* the parent columns of a media row that are populated, by their tag
ParentsOf(m) ==
    {t \in {"school", "primary", "basic", "secondary"} :
        CASE t = "school"  -> m.schoolId # 0
          [] t = "primary" -> m.primaryLevelId # 0
          [] t = "basic"   -> m.basicLevelId # 0
          [] OTHER         -> m.secondaryLevelId # 0}

InitPagination ==
    \E n \in 0..MaxListed :
        /\ schools = [i \in 1..n |->
                         [createdBy |-> IF i % 2 = 1 THEN "a" ELSE "b",
                          updatedBy |-> None, name |-> <<"a">>,
                          founder |-> <<"f">>, schoolsWebSite |-> Https \o <<"x">>]]
        /\ children = [k \in ChildKinds |-> [i \in 1..n |-> "v0"]]
        /\ media = <<>>
        /\ userRoles = InitRoles
        /\ idpAccounts = InitAccounts
        /\ nextId = n + 1
        /\ started = 0
        /\ req = [r \in Slots |-> IdleReq]
        /\ call = NoCall

\* the router calls getAllSchools for caller u (None: no user attached)
\* with ?page=p&pageSize=s
ListRequested(r, u, p, s) ==
    /\ req[r].pc \in {"idle", "done"}
    /\ started < MaxRequests
    /\ started' = started + 1
    /\ req' = [req EXCEPT ![r] =
                  GetAllSchools([IdleReq EXCEPT
                                    !.route = "listSchools", !.pc = "handler",
                                    !.stage = 2, !.handlerCalled = TRUE,
                                    !.user = u,
                                    !.role = IF u = None THEN None ELSE userRoles[u]],
                                [page |-> <<p>>, pageSize |-> <<s>>])]
    /\ UNCHANGED <<db, nextId>>
    /\ UNCHANGED call

NextPagination ==
    \/ \E u \in {None, "a", "adm"}, p \in 1..MaxPage, s \in 1..MaxPageSize :
          ListRequested(1, u, p, s)
    \/ \E t \in BOOLEAN : ListCountReturns(1, t)
    \/ \E t \in BOOLEAN : ListFindReturns(1, t)

SpecPagination == InitPagination /\ [][NextPagination]_vars

\* C15: a paged list answered 200 reports totalPages = ceil(totalCount /
\* pageSize); its data are the records at positions (page-1)*pageSize to
\* page*pageSize - 1 of the newest-first order of the filtered records; a
\* page beyond totalPages has empty data and the same totalPages.
PaginationMath ==
    [][\A r \in Slots :
          LET q   == req[r]
              q2  == req'[r]
              sel == Selected(ListFilter(q.user, q.role))
              skip == (q.pageNum - 1) * q.pageSizeNum
              left == Cardinality(sel) - skip
              len == IF left <= 0 THEN 0
                     ELSE IF left < q.pageSizeNum THEN left ELSE q.pageSizeNum
          IN ( /\ q.pc = "list_find" /\ q.paged /\ Stepped(r)
               /\ q2.status = 200 )
             => /\ q.totalCount = Cardinality(sel)
                /\ q2.totalPages * q.pageSizeNum >= q.totalCount
                /\ (q2.totalPages - 1) * q.pageSizeNum < q.totalCount
                /\ Len(q2.result) = len
                /\ \A i \in 1..Len(q2.result) :
                      /\ q2.result[i] \in sel
                      /\ Cardinality({x \in sel : x > q2.result[i]}) = skip + i - 1
                /\ q.pageNum > q2.totalPages => q2.result = <<>>
      ]_vars

\* C15 witness: five records, page 2 of size 2 holds the third and fourth
\* newest and three pages are reported
SecondPageOfThree ==
    /\ req[1].pc = "done" /\ req[1].status = 200 /\ req[1].paged
    /\ req[1].user = None
    /\ req[1].totalCount = 5 /\ req[1].pageNum = 2 /\ req[1].pageSizeNum = 2
    /\ req[1].totalPages = 3 /\ req[1].result = <<3, 2>>

OneToOneChildren ==
    /\ [](\A k \in ChildKinds : DOMAIN children[k] = DOMAIN schools)
    /\ [][\A r \in Slots :
             ( req[r].route = "updateSchool" /\ Stepped(r)
               /\ req[r].pc \notin {"idle", "done"} )
             => \A k \in ChildKinds : DOMAIN children'[k] = DOMAIN children[k]
         ]_vars

\* C17 witness: two records were created and the first one deleted; the
\* second has its five children, one of them updated or not
TwoCreatedOneDeleted ==
    /\ req[1].route = "deleteSchool" /\ req[1].pc = "done" /\ req[1].status = 200
    /\ nextId = 3 /\ DOMAIN schools = {2}
    /\ \A k \in ChildKinds : DOMAIN children[k] = {2}

\* C18: when a POST /api/schools is answered 201, the record it created
\* is new and its createdBy is the user the token of the request was
\* verified for, whatever createdBy the body carries.
CreateSetsOwner ==
    [][\A r \in Slots :
          LET q  == req[r]
              q2 == req'[r]
          IN ( q.pc = "create_write" /\ Stepped(r) /\ q2.status = 201 )
             => /\ q2.id \notin DOMAIN schools /\ q2.id \in DOMAIN schools'
                /\ q.user # None /\ q.verify = "user"
                /\ q.user = TokenOf(q.header)
                /\ schools'[q2.id].createdBy = q.user
                /\ \A i \in DOMAIN schools : schools'[i] = schools[i]
      ]_vars

\* C18 witness: employee a created a record with a body that names b as
\* createdBy, and the record is a's
CreatedWithForeignOwnerInBody ==
    /\ req[1].route = "createSchool" /\ req[1].pc = "done" /\ req[1].status = 201
    /\ req[1].user = "a" /\ req[1].body.createdBy = "b"
    /\ schools[req[1].id].createdBy = "a"

\* C19: a POST /api/schools whose body the schema rejects is answered 400
\* as soon as its handler runs, the role lookup of authenticate is the only
\* database call it makes, and no step of it changes a row.
CreateValidatedBeforeWrite ==
    /\ [](\A r \in Slots :
             LET q == req[r]
             IN ( /\ q.route = "createSchool" /\ q.handlerCalled
                  /\ ~SchemaAccepts(q.body) )
                => /\ q.pc = "done" /\ q.status = 400 /\ q.responses = 1
                   /\ q.dbCalls = 1)
    /\ [][\A r \in Slots :
             ( /\ Stepped(r) /\ req'[r].route = "createSchool"
               /\ ~SchemaAccepts(req'[r].body) )
             => db' = db
         ]_vars

\* C19 witness: employee a posted a body the schema rejects and was
\* answered 400 with the store still empty
InvalidBodyRefused ==
    /\ req[1].route = "createSchool" /\ req[1].pc = "done"
    /\ req[1].handlerCalled /\ req[1].user = "a"
    /\ ~req[1].body.valid /\ req[1].status = 400 /\ req[1].caught
    /\ schools = <<>> /\ nextId = 1

\* the positions at which a handler awaits a call of the ORM
OrmAwaits ==
    {"list_count", "list_find", "get_find", "create_write", "update_load",
     "update_write", "delete_load", "delete_write", "media_write",
     "emp_roleWrite"}

\* C20: in every school, media and provisioning handler, an ORM call that
\* throws is answered 500.
PersistenceFailureIs500 ==
    [][\A r \in Slots :
          ( req[r].pc \in OrmAwaits /\ Stepped(r) /\ req'[r].caught )
          => req'[r].status = 500
      ]_vars

\* the free-text columns of a SchoolData row the model carries
FreeTextFields == {"name", "founder"}

\* C21: no stored free-text field of a record holds '<' or '>' or is
\* longer than 1000 characters.
FreeTextStoredSanitized ==
    \A i \in DOMAIN schools : \A f \in FreeTextFields :
        /\ \A j \in 1..Len(schools[i][f]) : ~IsAngle(schools[i][f][j])
        /\ Len(schools[i][f]) <= MaxStringLen

\* C22: the stored schoolsWebSite of every record is empty or has at most
\* 500 characters and begins with http:// or https:// in any letter case;
\* a create stores the empty string for a URL of the body without such a
\* prefix and stores an https URL within the cap as it is.
StoredUrlInvariant ==
    /\ [](\A i \in DOMAIN schools :
             LET u == schools[i].schoolsWebSite
             IN u = <<>> \/ (Len(u) <= MaxUrlLen /\ MatchesHttp(u)))
    /\ [][\A r \in Slots :
             LET q  == req[r]
                 q2 == req'[r]
                 u  == q.body.schoolsWebSite
             IN ( q.pc = "create_write" /\ Stepped(r) /\ q2.status = 201 )
                => /\ ~MatchesHttp(Trim(u))
                      => schools'[q2.id].schoolsWebSite = <<>>
                   /\ ( /\ StartsWithNoCase(u, Https) /\ Trim(u) = u
                        /\ Len(u) <= MaxUrlLen )
                      => schools'[q2.id].schoolsWebSite = u
         ]_vars

\* C22 witness: a record created with a javascript: URL, hence with an
\* empty one, was given an upper-case URL longer than the cap, after a
\* space, by an update and stores its first 500 characters after the space
UpperCaseUrlStoredTrimmed ==
    /\ req[1].route = "updateSchool" /\ req[1].pc = "done" /\ req[1].status = 200
    /\ "schoolsWebSite" \in req[1].payload
    /\ schools[req[1].id].name = <<"b">>
    /\ schools[req[1].id].schoolsWebSite = SubSeq(LongUrl, 2, MaxUrlLen + 1)
    /\ schools[req[1].id].founder = <<"<", "g">>

(* ---------------------- the sanitizers by themselves -------------------- *)

\* national numbers of nine digits
NationalNumbers ==
    {<<"5", "5", "5", "1", "2", "3", "4", "5", "6">>,
     <<"5", "9", "9", "3", "2", "3", "2", "1", "5">>,
     <<"1", "2", "3", "4", "5", "6", "7", "8", "9">>,
     <<"9", "8", "7", "6", "5", "4", "3", "2", "1">>,
     Repeat("0", 9)}

\* +995XXXXXXXXX
Prefixed(d) == CountryCode \o d

\* +995 XXX XX XX XX
Spaced(d) ==
    <<"+", "9", "9", "5", " ", d[1], d[2], d[3], " ", d[4], d[5], " ",
      d[6], d[7], " ", d[8], d[9]>>

\* arguments of the phone functions: nothing, the three shapes of a few
\* numbers, and texts of other shapes
PhoneInputs ==
    {Absent, <<>>}
    \cup UNION {{d, Prefixed(d), Spaced(d)} : d \in NationalNumbers}
    \cup {<<"5", "5", "5", "-", "1", "2", "3", "-", "4", "5", "6">>,
          <<"a", "5", "5", "5", "1", "2", "3", "4", "5", "6">>,
          <<"+", "9", "9", "5", "+", "1", "2", "3", "4", "5", "6", "7", "8">>,
          <<"+", "9", "9", "5", "5", "5", "5", "1", "2", "3", "4", "5">>,
          <<"5", "5", "5", "1", "2", "3", "4", "5", "6", "7">>,
          <<"9", "9", "5", "5", "5", "5", "1", "2", "3", "4", "5", "6">>,
          <<"+", "9", "9", "4", "5", "5", "5", "1", "2", "3", "4", "5", "6">>,
          <<"+", "+", "9", "9", "5", "5", "5", "5", "1", "2", "3", "4", "5", "6">>,
          <<"a", "b", "c">>,
          <<"a", " ", "1">>,
          <<"1", "-", "2", " ", "x">>,
          Repeat("1", MaxPhoneLen + 4) \o <<"<">>}

\* arguments of sanitizeString: with spaces and angle brackets at either
\* end, and longer than the cap
TextInputs ==
    {<<"a">>, <<" ", "a", " ">>, <<"<", "b", ">">>, <<"a", " ", "<">>,
     <<">", " ", "a">>, <<" ">>, <<"a", "<", " ", ">", "b">>,
     Repeat("a", MaxStringLen + 1),
     Repeat("a", MaxStringLen - 1) \o <<" ", "b">>}

SanitizeInputs == PhoneInputs \cup TextInputs

Sanitizers == {"formatGeorgianPhone", "sanitizePhone", "sanitizeString"}

\* the value fn returns for x
Result(fn, x) ==
    CASE fn = "formatGeorgianPhone" -> formatGeorgianPhone(x)
      [] fn = "sanitizePhone"       -> sanitizePhone(x)
      [] fn = "sanitizeString"      -> sanitizeString(x)

\* some argument is at hand, nothing was called
InitSanitize ==
    /\ schools = <<>>
    /\ children = [k \in ChildKinds |-> <<>>]
    /\ media = <<>>
    /\ userRoles = InitRoles
    /\ idpAccounts = InitAccounts
    /\ nextId = 1
    /\ started = 0
    /\ req = [r \in Slots |-> IdleReq]
    /\ \E x \in SanitizeInputs : call = [NoCall EXCEPT !.arg = x]

\* fn is called on the argument, and after that on what it returned
Apply(fn) ==
    /\ call.fn \in {"none", fn}
    /\ call.times < MaxApplications
    /\ call' = [call EXCEPT
                   !.fn = fn,
                   !.ret = Result(fn, IF call.times = 0 THEN call.arg ELSE call.ret),
                   !.times = @ + 1]
    /\ UNCHANGED <<db, nextId, started, req>>

NextSanitize == \E fn \in Sanitizers : Apply(fn)

SpecSanitize == InitSanitize /\ [][NextSanitize]_vars

\* the three shapes of a phone number the validators accept
IsPrefixed(s) == Len(s) = 13 /\ StartsWith(s, CountryCode) /\ NineDigits(SubSeq(s, 5, 13))

IsSpaced(s) ==
    /\ Len(s) = 17
    /\ StartsWith(s, CountryCode)
    /\ \A i \in 5..17 : IF i \in {5, 9, 12, 15} THEN s[i] = " " ELSE IsDigit(s[i])

Accepted(s) == s # Absent /\ (NineDigits(s) \/ IsPrefixed(s) \/ IsSpaced(s))

\* the nine digits of a number of an accepted shape
NationalOf(s) ==
    IF NineDigits(s) THEN s ELSE SelectSeq(SubSeq(s, 5, Len(s)), IsDigit)

\* "+995 " + d[0:3] + " " + d[3:5] + " " + d[5:7] + " " + d[7:9]
Expected(d) ==
    <<"+", "9", "9", "5", " ">> \o SubSeq(d, 1, 3) \o <<" ">> \o SubSeq(d, 4, 5)
        \o <<" ">> \o SubSeq(d, 6, 7) \o <<" ">> \o SubSeq(d, 8, 9)

\* C23: for a string d of nine digits, formatGeorgianPhone of d, of "+995"
\* followed by d and of the form spaced 3-2-2-2 all return "+995 ", the
\* first three digits of d, a space, the next two, a space, the next two,
\* a space and the last two.
PhoneNormalizedOnAcceptedShapes ==
    ( /\ call.fn = "formatGeorgianPhone" /\ call.times = 1
      /\ Accepted(call.arg) )
    => call.ret = Expected(NationalOf(call.arg))

\* C23 witness: +995599323215 was formatted to +995 599 32 32 15
PrefixedNumberFormatted ==
    /\ call.fn = "formatGeorgianPhone" /\ call.times = 1
    /\ call.arg = <<"+", "9", "9", "5", "5", "9", "9", "3", "2", "3", "2", "1", "5">>
    /\ call.ret = <<"+", "9", "9", "5", " ", "5", "9", "9", " ", "3", "2", " ",
                    "3", "2", " ", "1", "5">>

\* C24: formatGeorgianPhone returns the empty string for every argument
\* that is not of one of the three accepted shapes, an empty or absent
\* argument included.
PhoneOtherShapesRejected ==
    ( /\ call.fn = "formatGeorgianPhone" /\ call.times = 1
      /\ ~Accepted(call.arg) )
    => call.ret = <<>>

\* C25: what formatGeorgianPhone returns is the empty string or "+995 "
\* followed by three digits, a space, two digits, a space, two digits, a
\* space and two digits.
PhoneResultCanonical ==
    ( call.fn = "formatGeorgianPhone" /\ call.times = 1 )
    => ( call.ret = <<>> \/ IsSpaced(call.ret) )

\* C26: sanitizeString applied to what sanitizeString returned returns the
\* same string.
SanitizeStringIdempotent ==
    [][( /\ call.fn = "sanitizeString" /\ call'.fn = "sanitizeString"
         /\ call.times = 1 /\ call'.times = 2 )
       => call'.ret = call.ret]_vars

\* C27: when the role lookup of authenticate throws after the token was
\* verified, authenticate answers 500 and not 401, this is the one response
\* of the request, next is not invoked, no role is attached and no row of
\* storage is read or written for the request any more.
RoleLookupFailureIs500 ==
    [][\A r \in Slots :
          LET q  == req[r]
              q2 == req'[r]
          IN ( /\ q.route \in ProtectedRoutes
               /\ q.pc = "roleLookup" /\ Stepped(r)
               /\ q2.sentBy = "authenticate" )
             => /\ q.verify = "user" /\ q2.caught
                /\ q2.pc = "done" /\ q2.status = 500 /\ q2.status # 401
                /\ q2.responses = 1
                /\ q2.stage = 1 /\ ~q2.handlerCalled
                /\ q2.role = None
                /\ q2.dbCalls = 1
                /\ db' = db
      ]_vars

\* C27 witness: the token of the admin was verified, the role lookup threw
\* and the delete was answered 500 by authenticate
RoleLookupThrewAnswered500 ==
    /\ req[1].route = "deleteSchool" /\ req[1].pc = "done"
    /\ req[1].verify = "user" /\ req[1].user = "adm"
    /\ req[1].caught /\ req[1].sentBy = "authenticate" /\ req[1].status = 500
    /\ req[1].dbCalls = 1 /\ ~req[1].handlerCalled
    /\ schools # <<>>

\* C28: the list answered to a caller whose token was verified but who has
\* no role row holds every record, as the list answered to an admin or to
\* a caller without a header does (a paged answer counts every record and
\* holds a part of them).
NoRoleListsEverything ==
    [][\A r \in Slots :
          LET q  == req[r]
              q2 == req'[r]
          IN ( /\ q.pc = "list_find" /\ Stepped(r) /\ q2.status = 200
               /\ q.user # None /\ q.role = None )
             => /\ ListFilter(q.user, q.role) = None
                /\ ~q.paged => Range(q2.result) = DOMAIN schools
                /\ q.paged => /\ Range(q2.result) \subseteq DOMAIN schools
                              /\ q2.totalCount = Cardinality(DOMAIN schools)
      ]_vars

\* C28 witness: with a record of a and a record of b stored, the account
\* without a role row was answered the full list, which holds both
NoRoleListedBoth ==
    /\ req[1].route = "listSchools" /\ req[1].pc = "done" /\ req[1].status = 200
    /\ ~req[1].paged
    /\ req[1].user = "n" /\ req[1].role = None /\ userRoles["n"] = None
    /\ \E i, j \in DOMAIN schools :
          /\ schools[i].createdBy = "a" /\ schools[j].createdBy = "b"
          /\ Range(req[1].result) = {i, j}

\* C29: with PUT and DELETE requests served concurrently, the write of a
\* request of an employee changes or removes a record only when the
\* record's createdBy is that employee in the state the write is applied to.
OwnershipHoldsAtWrite ==
    [][\A r \in Slots :
          LET q == req[r]
          IN ( /\ q.pc \in {"update_write", "delete_write"} /\ Stepped(r)
               /\ q.role = "employee"
               /\ db' # db )
             => /\ q.id \in DOMAIN schools
                /\ schools[q.id].createdBy = q.user
      ]_vars

\* C30: what sanitizePhone returns is of the form +995 XXX XX XX XX or has
\* at most 20 characters, each a digit, '+', a space or '-'; and
\* sanitizePhone applied to what sanitizePhone returned returns the same
\* string.
SanitizePhoneIdempotentBounded ==
    /\ []( ( call.fn = "sanitizePhone" /\ call.times >= 1 )
           => \/ IsSpaced(call.ret)
              \/ /\ Len(call.ret) <= MaxPhoneLen
                 /\ \A i \in 1..Len(call.ret) :
                       call.ret[i] \in Digits \cup {"+", " ", "-"} )
    /\ [][( /\ call.fn = "sanitizePhone" /\ call'.fn = "sanitizePhone"
            /\ call.times = 1 /\ call'.times = 2 )
          => call'.ret = call.ret]_vars

====
